---- MODULE Spec2Model ----
(***************************************************************************)
(* A model of SIM.py, the gshare branch predictor simulator: the           *)
(* GSharePredictor engine (pattern history table, global branch history,   *)
(* running statistics) and the driver main() that validates the command    *)
(* line, reads the trace file line by line and prints the summary.         *)
(*                                                                         *)
(* Python values that may be None are tagged records (type, val). Text     *)
(* that the program parses (M, N, trace lines) is a sequence of one        *)
(* character strings, so that split(), lower() and int() are computed.     *)
(***************************************************************************)
EXTENDS Integers, Sequences, FiniteSets, TLC

\* ------------------------------------------------------------------ bounds
MaxM == 2          \* largest table width M tried on the command line
MaxTrace == 3      \* largest number of lines in a trace file
MaxAddress == 32   \* addresses -MaxAddress..MaxAddress are tried for index claims

\* ------------------------------------------------------- Python primitives
PyNone == [type |-> "NoneType"]
PyInt(i) == [type |-> "int", val |-> i]
PyStr(s) == [type |-> "str", val |-> s]
PyTuple(a, b) == [type |-> "tuple", val |-> <<a, b>>]

RECURSIVE Pow2(_)
Pow2(k) == IF k <= 0 THEN 1 ELSE 2 * Pow2(k - 1)

\* a << k and a >> k on Python's unbounded integers (>> is a floor shift)
Shl(a, k) == a * Pow2(k)
Shr(a, k) == a \div Pow2(k)

\* a & b on two's complement integers of unbounded width
RECURSIVE BitAnd(_, _)
BitAnd(a, b) ==
  IF a = 0 \/ b = 0 THEN 0
  ELSE IF a = -1 THEN b
  ELSE IF b = -1 THEN a
  ELSE (a % 2) * (b % 2) + 2 * BitAnd(a \div 2, b \div 2)

\* a | b
RECURSIVE BitOr(_, _)
BitOr(a, b) ==
  IF a = 0 THEN b
  ELSE IF b = 0 THEN a
  ELSE IF a = -1 \/ b = -1 THEN -1
  ELSE (IF a % 2 = 1 \/ b % 2 = 1 THEN 1 ELSE 0) + 2 * BitOr(a \div 2, b \div 2)

\* a ^ b
RECURSIVE BitXor(_, _)
BitXor(a, b) ==
  IF a = 0 THEN b
  ELSE IF b = 0 THEN a
  ELSE IF a = -1 THEN -1 - b
  ELSE IF b = -1 THEN -1 - a
  ELSE (IF a % 2 = b % 2 THEN 0 ELSE 1) + 2 * BitXor(a \div 2, b \div 2)

Min(a, b) == IF a <= b THEN a ELSE b
Max(a, b) == IF a >= b THEN a ELSE b

\* list[i]: the position a Python list of length n reads for index i, or
\* -1 when it raises IndexError (a negative index counts from the end)
ListIndex(n, i) ==
  IF 0 <= i /\ i < n THEN i
  ELSE IF -n <= i /\ i < 0 THEN i + n
  ELSE -1

\* ---------------------------------------------------------- text handling
Whitespace == {" ", "\t", "\n", "\r"}
UpperChars == <<"A", "B", "C", "D", "E", "F", "N", "T", "X">>
LowerChars == <<"a", "b", "c", "d", "e", "f", "n", "t", "x">>
DigitChars == <<"0", "1", "2", "3", "4", "5", "6", "7", "8", "9",
                "a", "b", "c", "d", "e", "f">>

\* str.lower() on one character and on a string
LowerChar(c) ==
  IF \E i \in 1..Len(UpperChars) : UpperChars[i] = c
  THEN LowerChars[CHOOSE i \in 1..Len(UpperChars) : UpperChars[i] = c]
  ELSE c
Lower(s) == [i \in 1..Len(s) |-> LowerChar(s[i])]

\* str.strip(): drop leading and trailing whitespace
RECURSIVE LStrip(_)
LStrip(s) == IF s # <<>> /\ Head(s) \in Whitespace THEN LStrip(Tail(s)) ELSE s
RECURSIVE RStrip(_)
RStrip(s) ==
  IF s # <<>> /\ s[Len(s)] \in Whitespace THEN RStrip(SubSeq(s, 1, Len(s) - 1)) ELSE s
Strip(s) == RStrip(LStrip(s))

\* str.split(): the maximal runs of non-whitespace characters, in order
RECURSIVE FirstField(_)
FirstField(s) ==
  IF s = <<>> \/ Head(s) \in Whitespace THEN <<>> ELSE <<Head(s)>> \o FirstField(Tail(s))
RECURSIVE Split(_)
Split(s) ==
  LET t == LStrip(s)
      f == FirstField(t)
  IN IF t = <<>> THEN <<>> ELSE <<f>> \o Split(SubSeq(t, Len(f) + 1, Len(t)))

\* int(s, base) for base 10 or 16: optional sign, optional 0x prefix in
\* base 16, then digits with single underscores between them.
\* The result is [ok, val]; ok = FALSE stands for ValueError.
IsDigit(c, base) ==
  \E i \in 1..base : DigitChars[i] = LowerChar(c)
DigitVal(c) == (CHOOSE i \in 1..16 : DigitChars[i] = LowerChar(c)) - 1
RECURSIVE DigitsVal(_, _, _)
DigitsVal(s, base, acc) ==
  IF s = <<>> THEN acc
  ELSE IF Head(s) = "_" THEN DigitsVal(Tail(s), base, acc)
  ELSE DigitsVal(Tail(s), base, acc * base + DigitVal(Head(s)))
DigitsOk(s, base) ==
  /\ s # <<>>
  /\ \A i \in 1..Len(s) : s[i] = "_" \/ IsDigit(s[i], base)
  /\ s[Len(s)] # "_"
  /\ \A i \in 1..(Len(s) - 1) : ~(s[i] = "_" /\ s[i + 1] = "_")
ParseInt(s, base) ==
  LET t == Strip(s)
      neg == t # <<>> /\ Head(t) = "-"
      u == IF t # <<>> /\ Head(t) \in {"-", "+"} THEN Tail(t) ELSE t
      pre == base = 16 /\ Len(u) >= 2 /\ u[1] = "0" /\ LowerChar(u[2]) = "x"
      d == IF pre THEN SubSeq(u, 3, Len(u)) ELSE u
      ok == DigitsOk(d, base) /\ (pre \/ d[1] # "_")
  IN IF ok THEN [ok |-> TRUE, val |-> IF neg THEN 0 - DigitsVal(d, base, 0)
                                              ELSE DigitsVal(d, base, 0)]
     ELSE [ok |-> FALSE, val |-> 0]

\* ------------------------------------------------------- GSharePredictor
\* __init__ whose table has M entries instead of 2^M
GSharePredictor_M_entries(M, N) ==
  [type |-> "GSharePredictor",
   M |-> M,
   N |-> N,
   gbh |-> 0,
   pht_size |-> M,
   pht |-> [i \in 0..(M - 1) |-> 2],
   predictions |-> 0,
   mispredictions |-> 0]

\* __init__ whose counters start at 1 (weakly not taken)
GSharePredictor_weakly_not_taken(M, N) ==
  [type |-> "GSharePredictor",
   M |-> M,
   N |-> N,
   gbh |-> 0,
   pht_size |-> Shl(1, M),
   pht |-> [i \in 0..(Shl(1, M) - 1) |-> 1],
   predictions |-> 0,
   mispredictions |-> 0]

\* GSharePredictor.__init__
GSharePredictor(M, N) ==
  [type |-> "GSharePredictor",
   M |-> M,
   N |-> N,
   gbh |-> 0,
   pht_size |-> Shl(1, M),
   pht |-> [i \in 0..(Shl(1, M) - 1) |-> 2],
   predictions |-> 0,
   mispredictions |-> 0]

\* make_prediction without the mask that keeps the low M bits of the address
make_prediction_unmasked(self, program_counter) ==
  LET pc_without_lsbs == Shr(program_counter, 2)
      extracted_pc_bits == pc_without_lsbs
      shifted_history == IF self.N = 0 THEN 0 ELSE Shl(self.gbh, self.M - self.N)
      pht_index == BitXor(extracted_pc_bits, shifted_history)
      at == ListIndex(self.pht_size, pht_index)
  IN IF at = -1
     THEN [self |-> self, raised |-> "IndexError", pht_index |-> pht_index,
           predicted_taken |-> FALSE]
     ELSE [self |-> self, raised |-> "none", pht_index |-> pht_index,
           predicted_taken |-> (self.pht[at] >= 2)]

\* make_prediction that does not drop the two low bits of the address
make_prediction_keeps_lsbs(self, program_counter) ==
  LET extracted_pc_bits == BitAnd(program_counter, Shl(1, self.M) - 1)
      shifted_history == IF self.N = 0 THEN 0 ELSE Shl(self.gbh, self.M - self.N)
      pht_index == BitXor(extracted_pc_bits, shifted_history)
      at == ListIndex(self.pht_size, pht_index)
  IN IF at = -1
     THEN [self |-> self, raised |-> "IndexError", pht_index |-> pht_index,
           predicted_taken |-> FALSE]
     ELSE [self |-> self, raised |-> "none", pht_index |-> pht_index,
           predicted_taken |-> (self.pht[at] >= 2)]

\* make_prediction that counts the prediction itself
make_prediction_counts(self, program_counter) ==
  LET pc_without_lsbs == Shr(program_counter, 2)
      extracted_pc_bits == BitAnd(pc_without_lsbs, Shl(1, self.M) - 1)
      shifted_history == IF self.N = 0 THEN 0 ELSE Shl(self.gbh, self.M - self.N)
      pht_index == BitXor(extracted_pc_bits, shifted_history)
      at == ListIndex(self.pht_size, pht_index)
      counted == [self EXCEPT !.predictions = self.predictions + 1]
  IN IF at = -1
     THEN [self |-> counted, raised |-> "IndexError", pht_index |-> pht_index,
           predicted_taken |-> FALSE]
     ELSE [self |-> counted, raised |-> "none", pht_index |-> pht_index,
           predicted_taken |-> (self.pht[at] >= 2)]

\* make_prediction that predicts taken only from the counter value 3
make_prediction_strict(self, program_counter) ==
  LET pc_without_lsbs == Shr(program_counter, 2)
      extracted_pc_bits == BitAnd(pc_without_lsbs, Shl(1, self.M) - 1)
      shifted_history == IF self.N = 0 THEN 0 ELSE Shl(self.gbh, self.M - self.N)
      pht_index == BitXor(extracted_pc_bits, shifted_history)
      at == ListIndex(self.pht_size, pht_index)
  IN IF at = -1
     THEN [self |-> self, raised |-> "IndexError", pht_index |-> pht_index,
           predicted_taken |-> FALSE]
     ELSE [self |-> self, raised |-> "none", pht_index |-> pht_index,
           predicted_taken |-> (self.pht[at] > 2)]

\* GSharePredictor.make_prediction. self is the engine as the call leaves
\* it (the method assigns to no attribute); raised = "IndexError" when the
\* table read self.pht[pht_index] is out of range (then nothing is returned).
make_prediction(self, program_counter) ==
  LET pc_without_lsbs == Shr(program_counter, 2)
      extracted_pc_bits == BitAnd(pc_without_lsbs, Shl(1, self.M) - 1)
      shifted_history == IF self.N = 0 THEN 0 ELSE Shl(self.gbh, self.M - self.N)
      pht_index == BitXor(extracted_pc_bits, shifted_history)
      at == ListIndex(self.pht_size, pht_index)
  IN IF at = -1
     THEN [self |-> self, raised |-> "IndexError", pht_index |-> pht_index,
           predicted_taken |-> FALSE]
     ELSE [self |-> self, raised |-> "none", pht_index |-> pht_index,
           predicted_taken |-> (self.pht[at] >= 2)]

\* update_predictor whose counter is not clamped at 0 and 3
update_predictor_unclamped(self, pht_index, actual_taken) ==
  LET at == ListIndex(self.pht_size, pht_index)
      current_counter == IF actual_taken THEN self.pht[at] + 1 ELSE self.pht[at] - 1
      shifted == Shr(self.gbh, 1)
      gbh1 == IF self.N > 0
              THEN (IF actual_taken THEN BitOr(shifted, Shl(1, self.N - 1)) ELSE shifted)
              ELSE self.gbh
  IN [self EXCEPT !.pht = [self.pht EXCEPT ![at] = current_counter],
                  !.gbh = gbh1]

\* update_predictor that shifts the history left and inserts the outcome
\* at bit 0
update_predictor_shift_left(self, pht_index, actual_taken) ==
  LET at == ListIndex(self.pht_size, pht_index)
      current_counter == IF actual_taken THEN Min(3, self.pht[at] + 1)
                                         ELSE Max(0, self.pht[at] - 1)
      shifted == BitAnd(Shl(self.gbh, 1), Shl(1, self.N) - 1)
      gbh1 == IF self.N > 0
              THEN (IF actual_taken THEN BitOr(shifted, 1) ELSE shifted)
              ELSE self.gbh
  IN [self EXCEPT !.pht = [self.pht EXCEPT ![at] = current_counter],
                  !.gbh = gbh1]

\* update_predictor that sets the counter straight to 3 or to 0
update_predictor_jumps(self, pht_index, actual_taken) ==
  LET at == ListIndex(self.pht_size, pht_index)
      current_counter == IF actual_taken THEN 3 ELSE 0
      shifted == Shr(self.gbh, 1)
      gbh1 == IF self.N > 0
              THEN (IF actual_taken THEN BitOr(shifted, Shl(1, self.N - 1)) ELSE shifted)
              ELSE self.gbh
  IN [self EXCEPT !.pht = [self.pht EXCEPT ![at] = current_counter],
                  !.gbh = gbh1]

\* update_predictor that inserts the outcome at bit N instead of bit N-1
update_predictor_inserts_at_N(self, pht_index, actual_taken) ==
  LET at == ListIndex(self.pht_size, pht_index)
      current_counter == IF actual_taken THEN Min(3, self.pht[at] + 1)
                                         ELSE Max(0, self.pht[at] - 1)
      shifted == Shr(self.gbh, 1)
      gbh1 == IF self.N > 0
              THEN (IF actual_taken THEN BitOr(shifted, Shl(1, self.N)) ELSE shifted)
              ELSE self.gbh
  IN [self EXCEPT !.pht = [self.pht EXCEPT ![at] = current_counter],
                  !.gbh = gbh1]

\* GSharePredictor.update_predictor (called with an index that
\* make_prediction has just read, so the table access does not raise)
update_predictor(self, pht_index, actual_taken) ==
  LET at == ListIndex(self.pht_size, pht_index)
      current_counter == IF actual_taken THEN Min(3, self.pht[at] + 1)
                                         ELSE Max(0, self.pht[at] - 1)
      shifted == Shr(self.gbh, 1)
      gbh1 == IF self.N > 0
              THEN (IF actual_taken THEN BitOr(shifted, Shl(1, self.N - 1)) ELSE shifted)
              ELSE self.gbh
  IN [self EXCEPT !.pht = [self.pht EXCEPT ![at] = current_counter],
                  !.gbh = gbh1]

\* process_branch that counts the prediction before it validates the outcome
process_branch_counts_first(self, program_counter, branch_result) ==
  LET counted == [self EXCEPT !.predictions = self.predictions + 1]
  IN IF ~(branch_result.type = "str" /\ branch_result.val \in {<<"t">>, <<"n">>})
     THEN IF program_counter.type = "int"
          THEN [self |-> counted, raised |-> "none",
                printed |-> <<[kind |-> "warning", text |-> "Invalid outcome"]>>]
          ELSE [self |-> counted, raised |-> "TypeError", printed |-> <<>>]
     ELSE LET actual_taken == (branch_result.val = <<"t">>)
          IN IF program_counter.type # "int"
             THEN [self |-> counted, raised |-> "TypeError", printed |-> <<>>]
             ELSE LET p == make_prediction(counted, program_counter.val)
                      scored == IF p.predicted_taken # actual_taken
                                THEN [p.self EXCEPT
                                        !.mispredictions = p.self.mispredictions + 1]
                                ELSE p.self
                  IN IF p.raised # "none"
                     THEN [self |-> p.self, raised |-> p.raised, printed |-> <<>>]
                     ELSE [self |-> update_predictor(scored, p.pht_index, actual_taken),
                           raised |-> "none", printed |-> <<>>]

\* process_branch that updates the predictor first and scores the branch
\* against the prediction made from the updated state
process_branch_update_first(self, program_counter, branch_result) ==
  IF ~(branch_result.type = "str" /\ branch_result.val \in {<<"t">>, <<"n">>})
  THEN IF program_counter.type = "int"
       THEN [self |-> self, raised |-> "none",
             printed |-> <<[kind |-> "warning", text |-> "Invalid outcome"]>>]
       ELSE [self |-> self, raised |-> "TypeError", printed |-> <<>>]
  ELSE LET counted == [self EXCEPT !.predictions = self.predictions + 1]
           actual_taken == (branch_result.val = <<"t">>)
       IN IF program_counter.type # "int"
          THEN [self |-> counted, raised |-> "TypeError", printed |-> <<>>]
          ELSE LET p == make_prediction(counted, program_counter.val)
                   updated == update_predictor(p.self, p.pht_index, actual_taken)
                   q == make_prediction(updated, program_counter.val)
               IN IF p.raised # "none" \/ q.raised # "none"
                  THEN [self |-> p.self, raised |-> "IndexError", printed |-> <<>>]
                  ELSE [self |-> IF q.predicted_taken # actual_taken
                                 THEN [updated EXCEPT
                                         !.mispredictions = updated.mispredictions + 1]
                                 ELSE updated,
                        raised |-> "none", printed |-> <<>>]

\* process_branch that does not count the prediction
process_branch_uncounted(self, program_counter, branch_result) ==
  IF ~(branch_result.type = "str" /\ branch_result.val \in {<<"t">>, <<"n">>})
  THEN IF program_counter.type = "int"
       THEN [self |-> self, raised |-> "none",
             printed |-> <<[kind |-> "warning", text |-> "Invalid outcome"]>>]
       ELSE [self |-> self, raised |-> "TypeError", printed |-> <<>>]
  ELSE LET actual_taken == (branch_result.val = <<"t">>)
       IN IF program_counter.type # "int"
          THEN [self |-> self, raised |-> "TypeError", printed |-> <<>>]
          ELSE LET p == make_prediction(self, program_counter.val)
                   scored == IF p.predicted_taken # actual_taken
                             THEN [p.self EXCEPT !.mispredictions = p.self.mispredictions + 1]
                             ELSE p.self
               IN IF p.raised # "none"
                  THEN [self |-> p.self, raised |-> p.raised, printed |-> <<>>]
                  ELSE [self |-> update_predictor(scored, p.pht_index, actual_taken),
                        raised |-> "none", printed |-> <<>>]

\* GSharePredictor.process_branch. The arguments are Python values.
\* The result is the engine as the call leaves it, the exception that
\* escapes the call ("none" when it returns) and the lines it printed.
process_branch(self, program_counter, branch_result) ==
  IF ~(branch_result.type = "str" /\ branch_result.val \in {<<"t">>, <<"n">>})
  THEN \* the warning formats program_counter with :08x, which None rejects
       IF program_counter.type = "int"
       THEN [self |-> self, raised |-> "none",
             printed |-> <<[kind |-> "warning", text |-> "Invalid outcome"]>>]
       ELSE [self |-> self, raised |-> "TypeError", printed |-> <<>>]
  ELSE LET counted == [self EXCEPT !.predictions = self.predictions + 1]
           actual_taken == (branch_result.val = <<"t">>)
       IN IF program_counter.type # "int"
          THEN [self |-> counted, raised |-> "TypeError", printed |-> <<>>]
          ELSE LET p == make_prediction(counted, program_counter.val)
                   scored == IF p.predicted_taken # actual_taken
                             THEN [p.self EXCEPT !.mispredictions = p.self.mispredictions + 1]
                             ELSE p.self
               IN IF p.raised # "none"
                  THEN [self |-> p.self, raised |-> p.raised, printed |-> <<>>]
                  ELSE [self |-> update_predictor(scored, p.pht_index, actual_taken),
                        raised |-> "none", printed |-> <<>>]

\* GSharePredictor.get_misprediction_rate: the rate as the fraction
\* num/den of a percentage (0.0 is 0/1)
get_misprediction_rate(self) ==
  IF self.predictions = 0 THEN [num |-> 0, den |-> 1]
  ELSE [num |-> self.mispredictions * 100, den |-> self.predictions]

\* the format :.2f, as a number of hundredths (round half to even)
Format2f(rate) ==
  LET q == (rate.num * 100) \div rate.den
      r == (rate.num * 100) % rate.den
  IN IF 2 * r < rate.den THEN q
     ELSE IF 2 * r > rate.den THEN q + 1
     ELSE IF q % 2 = 0 THEN q ELSE q + 1

\* ---------------------------------------------------------------- driver
\* parse_trace_line: always a pair, (None, None) for a line it rejects
parse_trace_line(input_line) ==
  LET line_parts == Split(Strip(input_line))
  IN IF Len(line_parts) < 2 THEN PyTuple(PyNone, PyNone)
     ELSE LET address_value == ParseInt(line_parts[1], 16)
              branch_outcome == Lower(line_parts[2])
          IN IF ~address_value.ok THEN PyTuple(PyNone, PyNone)
             ELSE IF branch_outcome \notin {<<"t">>, <<"n">>} THEN PyTuple(PyNone, PyNone)
             ELSE PyTuple(PyInt(address_value.val), PyStr(branch_outcome))

\* ----------------------------------------------------------------- state
VARIABLES
  pc,                   \* where main() is: "args", "open", "loop", "done"
  argv,                 \* sys.argv
  predictor,            \* the GSharePredictor object, None before line 120
  input_file,           \* the lines of the opened trace file
  current_line_number,  \* lines read from the file so far (enumerate from 1)
  stdout,               \* the lines printed so far
  exit_status,          \* the process exit status, NotExited while running
  calls                 \* the arguments of every process_branch call so far

vars == <<pc, argv, predictor, input_file, current_line_number, stdout,
          exit_status, calls>>

NotExited == -1

\* ---------------------------------------------------------------- inputs
\* the texts tried for <M> and <N>: 0..MaxM in decimal, a negative number
\* and a text that is no number
NumTokens ==
  {<<DigitChars[i + 1]>> : i \in 0..MaxM} \cup {<<"-", "1">>, <<"x">>}

ArgvSet ==
  {<<"SIM.py", "gshare", m, n, "trace.txt">> : m \in NumTokens, n \in NumTokens}
    \cup {<<"SIM.py", "bimodal", <<"1">>, <<"0">>, "trace.txt">>,
          <<"SIM.py", "gshare", <<"1">>, <<"0">>>>}

\* the trace lines tried: valid taken and not-taken records, an upper case
\* outcome, an address wider than the table, a negative address, an address
\* that is not hexadecimal, a blank line and an outcome that is not t/n
Lines ==
  {<<"0", "0", "0", "0", "0", "0", "0", "0", " ", "t", "\n">>,
   <<"0", "0", "0", "0", "0", "0", "0", "4", " ", "n", "\n">>,
   <<"1", "f", " ", "T", "\n">>,
   <<"-", "5", " ", "n", "\n">>,
   <<"x", "y", "z", " ", "t", "\n">>,
   <<"\n">>,
   <<"8", " ", "q", "\n">>}

Traces == UNION {[1..k -> Lines] : k \in 0..MaxTrace}

\* --------------------------------------------------------------- actions
Init ==
  /\ pc = "args"
  /\ argv \in ArgvSet
  /\ predictor = PyNone
  /\ input_file = <<>>
  /\ current_line_number = 0
  /\ stdout = <<>>
  /\ exit_status = NotExited
  /\ calls = <<>>

Error(text) == [kind |-> "error", text |-> text]

\* the validation of main() with M < 0 rejected instead of M <= 0
ConfigError_allows_zero_M(args) ==
  IF Len(args) # 5 THEN "Error: Wrong number of arguments"
  ELSE IF args[2] # "gshare" THEN "Error: Unsupported mode"
  ELSE LET m_parameter == ParseInt(args[3], 10)
           n_parameter == ParseInt(args[4], 10)
       IN IF ~m_parameter.ok \/ ~n_parameter.ok THEN "Error: M and N must be integers"
          ELSE IF m_parameter.val < 0 THEN "Error: M must be positive"
          ELSE IF n_parameter.val < 0 THEN "Error: N cannot be negative"
          ELSE IF n_parameter.val > m_parameter.val THEN "Error: N cannot be greater than M"
          ELSE ""

\* main(), lines 88-117: the message of the configuration error, or "" when
\* the command line is accepted
ConfigError(args) ==
  IF Len(args) # 5 THEN "Error: Wrong number of arguments"
  ELSE IF args[2] # "gshare" THEN "Error: Unsupported mode"
  ELSE LET m_parameter == ParseInt(args[3], 10)
           n_parameter == ParseInt(args[4], 10)
       IN IF ~m_parameter.ok \/ ~n_parameter.ok THEN "Error: M and N must be integers"
          ELSE IF m_parameter.val <= 0 THEN "Error: M must be positive"
          ELSE IF n_parameter.val < 0 THEN "Error: N cannot be negative"
          ELSE IF n_parameter.val > m_parameter.val THEN "Error: N cannot be greater than M"
          ELSE ""

\* main(), lines 88-120: validate the command line, then build the predictor
ParseArgs ==
  /\ pc = "args"
  /\ IF ConfigError(argv) # ""
     THEN /\ stdout' = Append(stdout, Error(ConfigError(argv)))
          /\ exit_status' = 1
          /\ pc' = "done"
          /\ UNCHANGED predictor
     ELSE /\ predictor' = GSharePredictor(ParseInt(argv[3], 10).val,
                                          ParseInt(argv[4], 10).val)
          /\ pc' = "open"
          /\ UNCHANGED <<stdout, exit_status>>
  /\ UNCHANGED <<argv, input_file, current_line_number, calls>>

\* main(), line 124: open() succeeds; the file holds any of the traces
OpenFile ==
  /\ pc = "open"
  /\ \E content \in Traces : input_file' = content
  /\ pc' = "loop"
  /\ UNCHANGED <<argv, predictor, current_line_number, stdout, exit_status, calls>>

\* main(), lines 124 and 135-143: open() raises
OpenFails ==
  /\ pc = "open"
  /\ \E error \in {"FileNotFoundError", "PermissionError", "OSError"} :
       stdout' = Append(stdout,
         IF error = "FileNotFoundError" THEN Error("Error: Trace file not found")
         ELSE IF error = "PermissionError" THEN Error("Error: No permission to read")
         ELSE [kind |-> "error", text |-> "Error reading trace file", detail |-> error])
  /\ exit_status' = 1
  /\ pc' = "done"
  /\ UNCHANGED <<argv, predictor, input_file, current_line_number, calls>>

\* main(), lines 125-133 and 141-143: one turn of the loop over the file
ReadLine ==
  /\ pc = "loop"
  /\ current_line_number < Len(input_file)
  /\ current_line_number' = current_line_number + 1
  /\ LET current_line_content == input_file[current_line_number + 1]
         parsed_data == parse_trace_line(current_line_content)
     IN IF parsed_data.type = "NoneType"
        THEN /\ stdout' = IF Strip(current_line_content) # <<>>
                          THEN Append(stdout, [kind |-> "warning",
                                               text |-> "Skipping invalid line",
                                               line |-> current_line_number + 1])
                          ELSE stdout
             /\ UNCHANGED <<pc, predictor, exit_status, calls>>
        ELSE LET program_counter_value == parsed_data.val[1]
                 branch_outcome_value == parsed_data.val[2]
                 r == process_branch(predictor, program_counter_value,
                                     branch_outcome_value)
             IN /\ calls' = Append(calls, [program_counter |-> program_counter_value,
                                           branch_result |-> branch_outcome_value])
                /\ predictor' = r.self
                /\ IF r.raised = "none"
                   THEN /\ stdout' = stdout \o r.printed
                        /\ UNCHANGED <<pc, exit_status>>
                   ELSE /\ stdout' = stdout \o r.printed \o
                             <<[kind |-> "error", text |-> "Error reading trace file",
                                detail |-> r.raised]>>
                        /\ exit_status' = 1
                        /\ pc' = "done"
  /\ UNCHANGED <<argv, input_file>>

\* a read error that is reported without sys.exit(1): main() goes on to
\* print the summary
ReadFails_falls_through ==
  /\ pc = "loop"
  /\ stdout' = stdout \o
       <<[kind |-> "error", text |-> "Error reading trace file", detail |-> "OSError"],
         [kind |-> "summary", M |-> predictor.M, N |-> predictor.N,
          rate |-> Format2f(get_misprediction_rate(predictor))]>>
  /\ exit_status' = 0
  /\ pc' = "done"
  /\ UNCHANGED <<argv, predictor, input_file, current_line_number, calls>>

\* main(), lines 125 and 141-143: reading the next line raises
ReadFails ==
  /\ pc = "loop"
  /\ stdout' = Append(stdout, [kind |-> "error", text |-> "Error reading trace file",
                               detail |-> "OSError"])
  /\ exit_status' = 1
  /\ pc' = "done"
  /\ UNCHANGED <<argv, predictor, input_file, current_line_number, calls>>

\* the summary printed without waiting for the end of the file
Report_early ==
  /\ pc = "loop"
  /\ LET misprediction_rate == get_misprediction_rate(predictor)
     IN stdout' = Append(stdout, [kind |-> "summary", M |-> predictor.M,
                                  N |-> predictor.N,
                                  rate |-> Format2f(misprediction_rate)])
  /\ exit_status' = 0
  /\ pc' = "done"
  /\ UNCHANGED <<argv, predictor, input_file, current_line_number, calls>>

\* main(), lines 146-149: the file is exhausted; print the summary
Report ==
  /\ pc = "loop"
  /\ current_line_number = Len(input_file)
  /\ LET misprediction_rate == get_misprediction_rate(predictor)
     IN stdout' = Append(stdout, [kind |-> "summary", M |-> predictor.M,
                                  N |-> predictor.N,
                                  rate |-> Format2f(misprediction_rate)])
  /\ exit_status' = 0
  /\ pc' = "done"
  /\ UNCHANGED <<argv, predictor, input_file, current_line_number, calls>>

Next == ParseArgs \/ OpenFile \/ OpenFails \/ ReadLine \/ ReadFails \/ Report

Spec == Init /\ [][Next]_vars

\* main() is one sequential thread that runs until it returns or exits: a
\* step that can be taken is eventually taken. Step is Next with its
\* disjuncts in another order.
Step == ReadFails \/ Report \/ OpenFails \/ OpenFile \/ ParseArgs \/ ReadLine

FairSpec == Spec /\ WF_vars(Step)

\* ------------------------------------------------- vocabulary of the claims
Constructed == predictor.type = "GSharePredictor"

\* parse_trace_line accepts the line as an (address, outcome) pair
LineAccepted(line) == parse_trace_line(line).val[2].type = "str"

\* the lines read so far that parse_trace_line accepts
AcceptedRead == {i \in 1..current_line_number : LineAccepted(input_file[i])}

\* the run ended on a file-access error (open or read failed)
FileErrorExit ==
  /\ pc = "done"
  /\ stdout # <<>>
  /\ LET last == stdout[Len(stdout)]
     IN /\ last.kind = "error"
        /\ \/ last.text \in {"Error: Trace file not found", "Error: No permission to read"}
           \/ (last.text = "Error reading trace file" /\ last.detail = "OSError")

\* the run got as far as the trace and ended without a file-access error
TraceRunEnded == pc = "done" /\ Constructed /\ ~FileErrorExit

SummaryPrinted == stdout # <<>> /\ stdout[Len(stdout)].kind = "summary"

\* the process_branch calls that were given a canonical outcome
IsCanonical(call) ==
  call.branch_result.type = "str" /\ call.branch_result.val \in {<<"t">>, <<"n">>}
Processed == SelectSeq(calls, IsCanonical)
LastTaken == Processed[Len(Processed)].branch_result.val = <<"t">>

Addresses == (0 - MaxAddress)..MaxAddress

\* ------------------------------------------------------------------ claims
\* C1: a trace that contains an invalid line is still read to its end, and
\* the run ends with the summary line and exit status 0.
C1_TraceLineErrorsRecoverable ==
  (TraceRunEnded /\ \E i \in 1..Len(input_file) : ~LineAccepted(input_file[i]))
    => /\ exit_status = 0
       /\ current_line_number = Len(input_file)
       /\ SummaryPrinted

\* C2: process_branch is called only for the lines parse_trace_line
\* accepted, with an integer address and an outcome t or n; it is not
\* called for an invalid line.
C2_InvalidLineNeverReachesEngine ==
  /\ \A i \in 1..Len(calls) :
       calls[i].program_counter.type = "int" /\ IsCanonical(calls[i])
  /\ Len(calls) = Cardinality(AcceptedRead)

\* C3: handling an invalid trace line leaves the engine (predictions,
\* mispredictions, PHT, GBH) as it was.
C3_InvalidLineLeavesEngine ==
  [][(/\ pc = "loop"
      /\ current_line_number' = current_line_number + 1
      /\ ~LineAccepted(input_file[current_line_number + 1]))
       => predictor' = predictor]_vars

\* C3 witness: an invalid line was handled after a branch had been counted
C3_Witness ==
  /\ Constructed
  /\ current_line_number >= 2
  /\ ~LineAccepted(input_file[current_line_number])
  /\ predictor.predictions >= 1

\* C4: a trace with no valid line ends successfully with the summary
\* <M> <N> 0.00.
C4_NoValidLinesZeroRate ==
  (/\ TraceRunEnded
   /\ \A i \in 1..Len(input_file) : ~LineAccepted(input_file[i]))
    => /\ exit_status = 0
       /\ SummaryPrinted
       /\ stdout[Len(stdout)].M = predictor.M
       /\ stdout[Len(stdout)].N = predictor.N
       /\ stdout[Len(stdout)].rate = 0

\* C5: every PHT entry is in 0..3; an increment at 3 leaves 3 and a
\* decrement at 0 leaves 0.
C5_Clamped ==
  Constructed =>
    \A i \in DOMAIN predictor.pht :
      /\ predictor.pht[i] \in 0..3
      /\ predictor.pht[i] = 3 => update_predictor(predictor, i, TRUE).pht[i] = 3
      /\ predictor.pht[i] = 0 => update_predictor(predictor, i, FALSE).pht[i] = 0

\* C5 witness: three branches hit one entry and left it at 0 (the third
\* was a decrement at 0)
C5_Witness ==
  /\ Constructed
  /\ predictor.predictions = 3
  /\ \E i \in DOMAIN predictor.pht :
       /\ predictor.pht[i] = 0
       /\ \A j \in DOMAIN predictor.pht : j # i => predictor.pht[j] = 2

\* C6: for every address, the index make_prediction computes is in
\* 0..2^M - 1 and the table read does not go out of bounds.
C6_IndexInRange ==
  Constructed =>
    \A a \in Addresses :
      LET p == make_prediction(predictor, a)
      IN p.raised = "none" /\ p.pht_index \in 0..(Pow2(predictor.M) - 1)

\* C6 witness: the history is not zero, N < M, and a branch whose address
\* has bits above the table width was processed
C6_Witness ==
  /\ Constructed
  /\ predictor.gbh # 0
  /\ predictor.N < predictor.M
  /\ \E i \in 1..Len(Processed) :
       Processed[i].program_counter.val >= 4 * Pow2(predictor.M)

\* C7: a processed branch is counted as a misprediction iff the counter
\* read before the update, at the index computed from the history before the
\* update, predicts the other outcome; the update changes that entry only.
C7_PredictBeforeUpdate ==
  [][(Constructed /\ predictor'.predictions = predictor.predictions + 1) =>
       LET call == calls'[Len(calls')]
           taken == (call.branch_result.val = <<"t">>)
           at == make_prediction(predictor, call.program_counter.val).pht_index
       IN /\ predictor'.mispredictions = predictor.mispredictions +
               (IF (predictor.pht[at] >= 2) # taken THEN 1 ELSE 0)
          /\ \A i \in DOMAIN predictor.pht :
               i # at => predictor'.pht[i] = predictor.pht[i]
          /\ predictor'.pht[at] = IF taken THEN Min(3, predictor.pht[at] + 1)
                                           ELSE Max(0, predictor.pht[at] - 1)]_vars

\* C7 witness: a branch was predicted taken from counter 2 and was not
\* taken (its counter is 1 afterwards), with a history that is not zero
C7_Witness ==
  /\ Constructed
  /\ predictor.predictions >= 2
  /\ predictor.mispredictions >= 1
  /\ predictor.gbh # 0
  /\ \E i \in DOMAIN predictor.pht : predictor.pht[i] = 1

\* C8 as stated: for N > 0, bit 0 of GBH is the outcome of the most
\* recently processed branch.
C8_Bit0IsMostRecent ==
  (Constructed /\ predictor.N > 0 /\ Processed # <<>>)
    => ((predictor.gbh % 2 = 1) <=> LastTaken)

\* C8 amended: for N > 0, bit N-1 of GBH is the outcome of the most
\* recently processed branch.
C8_TopBitIsMostRecent ==
  (Constructed /\ predictor.N > 0 /\ Processed # <<>>)
    => ((Shr(predictor.gbh, predictor.N - 1) % 2 = 1) <=> LastTaken)

\* C8 witness: N >= 2 and the last branch was taken while bit 0 is 0
C8_Witness ==
  /\ Constructed
  /\ predictor.N >= 2
  /\ Processed # <<>>
  /\ LastTaken
  /\ predictor.gbh % 2 = 0

\* C10: when N = 0, GBH is 0 and the index of every address is the low M
\* bits of (address >> 2).
C10_NoHistory ==
  (Constructed /\ predictor.N = 0) =>
    /\ predictor.gbh = 0
    /\ \A a \in Addresses :
         make_prediction(predictor, a).pht_index = (a \div 4) % Pow2(predictor.M)

\* C10 witness: N = 0 and both a taken and a not-taken branch were processed
C10_Witness ==
  /\ Constructed
  /\ predictor.N = 0
  /\ predictor.gbh = 0
  /\ \E i, j \in 1..Len(Processed) :
       /\ Processed[i].branch_result.val = <<"t">>
       /\ Processed[j].branch_result.val = <<"n">>

\* C11: a configuration error (wrong argument count, kind other than
\* gshare, M or N not an integer, M <= 0, N < 0, N > M) ends the run with a
\* non-zero status; no engine is constructed, no trace is opened or read and
\* no summary is printed.
BadConfiguration ==
  \/ Len(argv) # 5
  \/ argv[2] # "gshare"
  \/ ~ParseInt(argv[3], 10).ok
  \/ ~ParseInt(argv[4], 10).ok
  \/ ParseInt(argv[3], 10).val <= 0
  \/ ParseInt(argv[4], 10).val < 0
  \/ ParseInt(argv[4], 10).val > ParseInt(argv[3], 10).val

NoSummary == \A i \in 1..Len(stdout) : stdout[i].kind # "summary"

C11_ConfigErrorsFatal ==
  BadConfiguration =>
    /\ pc \in {"args", "done"}
    /\ predictor.type = "NoneType"
    /\ input_file = <<>> /\ current_line_number = 0 /\ calls = <<>>
    /\ NoSummary
    /\ pc = "done" => (exit_status # 0 /\ exit_status # NotExited)

\* C11 witness: the run ended on N > M, both integers and M >= 1
C11_Witness ==
  /\ pc = "done"
  /\ exit_status = 1
  /\ Len(argv) = 5
  /\ ParseInt(argv[3], 10).ok /\ ParseInt(argv[4], 10).ok
  /\ ParseInt(argv[3], 10).val >= 1
  /\ ParseInt(argv[4], 10).val > ParseInt(argv[3], 10).val

\* C12: once a file-access error is reported (open or read failed, also
\* after lines were processed) the run has exited with a non-zero status
\* and no summary line is printed.
FileErrorReported ==
  \E i \in 1..Len(stdout) :
    /\ stdout[i].kind = "error"
    /\ \/ stdout[i].text \in {"Error: Trace file not found",
                              "Error: No permission to read"}
       \/ (stdout[i].text = "Error reading trace file" /\ stdout[i].detail = "OSError")

C12_FileErrorsFatal ==
  FileErrorReported =>
    /\ pc = "done"
    /\ exit_status # 0 /\ exit_status # NotExited
    /\ NoSummary

\* C12 witness: reading failed after two branches had been processed
C12_Witness ==
  /\ FileErrorReported
  /\ Constructed
  /\ predictor.predictions = 2
  /\ current_line_number < Len(input_file)

\* C13: the freshly constructed engine, for the accepted M >= 1 and
\* 0 <= N <= M, has exactly 2^M PHT entries, all 2, GBH = 0 and both
\* statistics 0.
C13_Construction ==
  pc = "open" =>
    /\ Constructed
    /\ predictor.M = ParseInt(argv[3], 10).val
    /\ predictor.N = ParseInt(argv[4], 10).val
    /\ predictor.M >= 1 /\ 0 <= predictor.N /\ predictor.N <= predictor.M
    /\ DOMAIN predictor.pht = 0..(Pow2(predictor.M) - 1)
    /\ \A i \in DOMAIN predictor.pht : predictor.pht[i] = 2
    /\ predictor.gbh = 0
    /\ predictor.predictions = 0
    /\ predictor.mispredictions = 0

\* C13 witness: an engine with M = 2 and N = 1 has just been constructed
C13_Witness ==
  /\ pc = "open"
  /\ Constructed
  /\ predictor.M = 2
  /\ predictor.N = 1

\* C14: a processed branch adds exactly 1 to predictions and 0 or 1 to
\* mispredictions; always 0 <= mispredictions <= predictions, predictions is
\* the number of branches processed so far, and the rate (as the query
\* returns it and as the summary prints it) lies in [0, 100].
C14_Statistics ==
  [][Constructed' =>
       /\ 0 <= predictor'.mispredictions
       /\ predictor'.mispredictions <= predictor'.predictions
       /\ predictor'.predictions = Len(Processed')
       /\ 0 <= get_misprediction_rate(predictor').num
       /\ get_misprediction_rate(predictor').num
            <= 100 * get_misprediction_rate(predictor').den
       /\ SummaryPrinted' => stdout'[Len(stdout')].rate \in 0..10000
       /\ (Constructed /\ Len(Processed') = Len(Processed) + 1) =>
            /\ predictor'.predictions = predictor.predictions + 1
            /\ predictor'.mispredictions - predictor.mispredictions \in {0, 1}]_vars

\* C14 witness: three branches processed, some but not all mispredicted,
\* and the summary is printed
C14_Witness ==
  /\ Constructed
  /\ predictor.predictions = 3
  /\ predictor.mispredictions \in {1, 2}
  /\ SummaryPrinted

\* C15: update_predictor(index, taken) sets PHT[index] to min(3, old + 1)
\* or max(0, old - 1) and leaves the other entries and both statistics; a
\* processed branch changes at most one PHT entry, by at most 1.
C15_CounterUpdateFrame ==
  [][Constructed' =>
       /\ \A i \in DOMAIN predictor'.pht : \A t \in BOOLEAN :
            LET old == predictor'.pht[i]
                u == update_predictor(predictor', i, t)
            IN /\ u.pht[i] = IF t THEN (IF old + 1 > 3 THEN 3 ELSE old + 1)
                                  ELSE (IF old - 1 < 0 THEN 0 ELSE old - 1)
               /\ DOMAIN u.pht = DOMAIN predictor'.pht
               /\ \A j \in DOMAIN u.pht : j # i => u.pht[j] = predictor'.pht[j]
               /\ u.predictions = predictor'.predictions
               /\ u.mispredictions = predictor'.mispredictions
       /\ Constructed =>
            /\ Cardinality({i \in DOMAIN predictor.pht :
                              predictor'.pht[i] # predictor.pht[i]}) <= 1
            /\ \A i \in DOMAIN predictor.pht :
                 predictor'.pht[i] - predictor.pht[i] \in {-1, 0, 1}]_vars

\* C15 witness: two different entries were updated, one up and one down
C15_Witness ==
  /\ Constructed
  /\ predictor.predictions = 2
  /\ \E i, j \in DOMAIN predictor.pht : predictor.pht[i] = 3 /\ predictor.pht[j] = 1

\* C16: for N > 0 an update sets GBH to (old GBH >> 1) with bit N-1 set to
\* the outcome; always 0 <= GBH < 2^N, and after k processed branches bit
\* N-1-i is the outcome of the i-th most recent branch for i < min(k, N),
\* every other bit being 0.
Bit(x, b) == (x \div Pow2(b)) % 2

C16_HistoryShiftRegister ==
  (Constructed /\ predictor.N > 0) =>
    LET k == Len(Processed)
    IN /\ 0 <= predictor.gbh /\ predictor.gbh < Pow2(predictor.N)
       /\ \A i \in 0..(predictor.N - 1) :
            Bit(predictor.gbh, predictor.N - 1 - i) =
              IF i < k /\ Processed[k - i].branch_result.val = <<"t">> THEN 1 ELSE 0
       /\ \A t \in BOOLEAN :
            update_predictor(predictor, 0, t).gbh =
              (predictor.gbh \div 2) + (IF t THEN Pow2(predictor.N - 1) ELSE 0)

\* C16 witness: N = 2, three branches processed, the first one taken and
\* since shifted out of the register
C16_Witness ==
  /\ Constructed
  /\ predictor.N = 2
  /\ Len(Processed) = 3
  /\ Processed[1].branch_result.val = <<"t">>
  /\ predictor.gbh = 0

\* C17: make_prediction(address) returns predictedTaken = (PHT[index] >= 2)
\* and leaves the engine (PHT, GBH, predictions, mispredictions) as it was;
\* a second call returns the same index and prediction.
C17_PredictionSideEffectFree ==
  Constructed =>
    \A a \in Addresses :
      LET p == make_prediction(predictor, a)
          again == make_prediction(p.self, a)
      IN /\ p.self = predictor
         /\ p.predicted_taken = (predictor.pht[p.pht_index] >= 2)
         /\ again.self = predictor
         /\ again.pht_index = p.pht_index
         /\ again.predicted_taken = p.predicted_taken

\* C17 witness: branches were processed, the history is not zero and the
\* table holds both a counter that predicts taken and one that does not
C17_Witness ==
  /\ Constructed
  /\ predictor.predictions >= 2
  /\ predictor.gbh # 0
  /\ \E i, j \in DOMAIN predictor.pht : predictor.pht[i] < 2 /\ predictor.pht[j] >= 2

\* C18: while every branch processed so far was taken (any addresses), no
\* branch is mispredicted, every PHT entry is >= 2 and a printed rate is
\* 0.00; a trace of valid taken records ends with rate 0.00; for M=1, N=0 and two lines `00000000 t` the counter goes
\* 2 -> 3 -> 3 and the output is `1 0 0.00`.
AllTaken ==
  \A i \in 1..Len(input_file) :
    LET parsed == parse_trace_line(input_file[i])
    IN parsed.val[2].type = "str" /\ parsed.val[2].val = <<"t">>

Line00000000t == <<"0", "0", "0", "0", "0", "0", "0", "0", " ", "t", "\n">>
Line00000004n == <<"0", "0", "0", "0", "0", "0", "0", "4", " ", "n", "\n">>

ScenarioA ==
  /\ Constructed
  /\ predictor.M = 1 /\ predictor.N = 0
  /\ input_file = <<Line00000000t, Line00000000t>>

C18_AllTakenNeverMispredicted ==
  /\ (Constructed /\ \A i \in 1..Len(Processed) :
                        Processed[i].branch_result.val = <<"t">>) =>
       /\ predictor.mispredictions = 0
       /\ \A i \in DOMAIN predictor.pht : predictor.pht[i] >= 2
       /\ SummaryPrinted => stdout[Len(stdout)].rate = 0
  /\ (TraceRunEnded /\ AllTaken) =>
       /\ exit_status = 0
       /\ SummaryPrinted
       /\ stdout[Len(stdout)].rate = 0
  /\ ScenarioA =>
       /\ predictor.pht[0] = IF current_line_number = 0 THEN 2 ELSE 3
       /\ TraceRunEnded =>
            stdout = <<[kind |-> "summary", M |-> 1, N |-> 0, rate |-> 0]>>

\* C18 witness: scenario A has run to its end
C18_Witness ==
  /\ ScenarioA
  /\ TraceRunEnded
  /\ current_line_number = 2
  /\ predictor.pht[0] = 3

\* C19: the first branch a fresh engine processes is predicted taken at
\* the index (address >> 2) mod 2^M, so it is a misprediction iff it is not
\* taken; for M=2, N=2 and the single line `00000004 n` the index is 1,
\* mispredictions = predictions = 1 and the rate is 100.00.
ScenarioB ==
  /\ Constructed
  /\ predictor.M = 2 /\ predictor.N = 2
  /\ input_file = <<Line00000004n>>
  /\ current_line_number = 1

C19_FirstBranchPredictedTaken ==
  /\ (Constructed /\ Len(Processed) = 1) =>
       LET taken == (Processed[1].branch_result.val = <<"t">>)
           index == (Processed[1].program_counter.val \div 4) % Pow2(predictor.M)
       IN /\ predictor.predictions = 1
          /\ predictor.mispredictions = IF taken THEN 0 ELSE 1
          /\ predictor.pht[index] = IF taken THEN 3 ELSE 1
          /\ \A j \in DOMAIN predictor.pht : j # index => predictor.pht[j] = 2
  /\ ScenarioB =>
       /\ predictor.pht = [i \in 0..3 |-> IF i = 1 THEN 1 ELSE 2]
       /\ predictor.predictions = 1 /\ predictor.mispredictions = 1
       /\ TraceRunEnded =>
            stdout = <<[kind |-> "summary", M |-> 2, N |-> 2, rate |-> 10000]>>

\* C19 witness: scenario B has run to its end
C19_Witness ==
  /\ ScenarioB
  /\ TraceRunEnded
  /\ predictor.mispredictions = 1

\* C20: the run eventually terminates; the summary line is printed at most
\* once, only when every line of the trace has been read and processed, with
\* the rate of all the branches of the trace, as the last output of a run
\* that exits with status 0; and a run that exits with status 0 has printed it.
SummaryCount == Cardinality({i \in 1..Len(stdout) : stdout[i].kind = "summary"})

SummaryIsFinal ==
  LET summary == stdout[Len(stdout)]
  IN /\ SummaryPrinted
     /\ pc = "done"
     /\ exit_status = 0
     /\ current_line_number = Len(input_file)
     /\ predictor.predictions =
          Cardinality({i \in 1..Len(input_file) : LineAccepted(input_file[i])})
     /\ summary.M = predictor.M /\ summary.N = predictor.N
     /\ IF predictor.predictions = 0 THEN summary.rate = 0
        ELSE LET diff == summary.rate * predictor.predictions
                           - 10000 * predictor.mispredictions
             IN 2 * diff <= predictor.predictions /\ 0 - 2 * diff <= predictor.predictions

RunCompletionSafe ==
  /\ SummaryCount <= 1
  /\ SummaryCount = 1 => SummaryIsFinal
  /\ exit_status = 0 => SummaryCount = 1
  /\ pc # "done" => exit_status = NotExited

C20_RunCompletion == <>(pc = "done") /\ []RunCompletionSafe

\* C20 witness: a run over three lines, one of them mispredicted, ended
\* with the summary 33.33 and status 0
C20_Witness ==
  /\ pc = "done"
  /\ exit_status = 0
  /\ current_line_number = 3
  /\ predictor.predictions = 3
  /\ predictor.mispredictions = 1
  /\ stdout[Len(stdout)].rate = 3333

====
